---- MODULE Spec2Model ----
(***************************************************************************)
(* A model of DSA_MAZE_SOLVER.py: the MazeNode grid, the random maze       *)
(* generator, the A* search (astar) with its heapq frontier and its greedy *)
(* path reconstruction, the insertion of enemies along a path, and the     *)
(* generate_a_new_maze workflow.                                           *)
(*                                                                         *)
(* A node is identified by its coordinate <<row, col>> (0-based, as in the *)
(* source); a pointer field holds a coordinate or None.  Sequences are     *)
(* 1-based here, so index i of a Python list is index i + 1 of the model.  *)
(***************************************************************************)
EXTENDS Integers, Sequences, FiniteSets, TLC

\* ------------------------------------------------------------- bounds
\* The grid explored (rows, cols = 20, 20 in generate_a_new_maze).
Rows == 3
Cols == 3
\* The search harness and the generator specification explore the mazes
\* where at most MaxWalls of the coin flips of generate_random_maze come out
\* False (few walls) and those where at most MaxLinks come out True (few
\* adjacencies); the workflow explores every maze.
MaxWalls == 1
MaxLinks == 2
\* The search harness calls generate_random_maze with num_enemies up to this.
MaxSearchEnemies == 1
\* The generator specification calls it with num_enemies up to this.
MaxGenEnemies == 2
\* The search harness calls add_enemies_along_path with num_enemies up to this.
MaxPathEnemies == 2
\* The generate_a_new_maze calls the interpreter lets be open at a time (the
\* recursion limit, about a thousand frames by default), scaled down.
RecursionLimit == 2

\* ---------------------------------------------------------- constants
\* num_enemies=2 of the workflow's add_enemies_along_path call, and the 2 of
\* its test enemies_added == 2.
WorkflowPathEnemies == 2
\* random_num_enemies = 0, the num_enemies of the workflow's maze.
WorkflowNumEnemies == 0

\* ------------------------------------------------------------ values
None == <<>>

Coords(rows, cols) == (0 .. rows - 1) \X (0 .. cols - 1)

Cells == Coords(Rows, Cols)

\* float('inf'): a distance above every finite one (a finite distance is a
\* number of edges of a simple route, below the number of cells).
Inf == Rows * Cols

Abs(x) == IF x < 0 THEN -x ELSE x

\* MazeNode.__init__
MazeNode(row, col) ==
  [left |-> None, right |-> None, up |-> None, down |-> None,
   distance |-> Inf, visited |-> FALSE, is_enemy |-> FALSE]

\* The places where generate_random_maze flips a coin (random.choice([True,
\* False])): a rightward link for every cell but those of the last column, a
\* downward link for every cell but those of the last row.
RightFlips(rows, cols) == {n \in Coords(rows, cols) : n[2] < cols - 1}
DownFlips(rows, cols) == {n \in Coords(rows, cols) : n[1] < rows - 1}
CoinFlips(rows, cols) ==
  ({"right"} \X RightFlips(rows, cols)) \cup ({"down"} \X DownFlips(rows, cols))

\* The grid after the connection loop, given the set of the coin flips that
\* came out True: both pointers of a link are set together.
Connect(rows, cols, flips) ==
  [n \in Coords(rows, cols) |->
     [MazeNode(n[1], n[2]) EXCEPT
        !.right = IF <<"right", n>> \in flips THEN <<n[1], n[2] + 1>> ELSE None,
        !.left = IF <<"right", <<n[1], n[2] - 1>>>> \in flips
                 THEN <<n[1], n[2] - 1>> ELSE None,
        !.down = IF <<"down", n>> \in flips THEN <<n[1] + 1, n[2]>> ELSE None,
        !.up = IF <<"down", <<n[1] - 1, n[2]>>>> \in flips
               THEN <<n[1] - 1, n[2]>> ELSE None]]

\* The enemy loop: one random cell per iteration (two random.randint), drawn
\* with replacement.
RECURSIVE PlaceEnemies(_, _)
PlaceEnemies(m, draws) ==
  IF draws = <<>> THEN m
  ELSE PlaceEnemies([m EXCEPT ![Head(draws)].is_enemy = TRUE], Tail(draws))

\* generate_random_maze(rows, cols, num_enemies): the maze returned when the
\* coin flips in flips come out True and the enemy loop draws the cells of
\* draws, one per iteration.
GenerateRandomMaze(rows, cols, num_enemies, flips, draws) ==
  PlaceEnemies(Connect(rows, cols, flips), SubSeq(draws, 1, num_enemies))

\* The outcomes of the coin flips, and those the search harness and the
\* generator specification explore.
AllFlipOutcomes(rows, cols) == SUBSET CoinFlips(rows, cols)
ExploredFlipOutcomes(rows, cols) ==
  {t \in AllFlipOutcomes(rows, cols) :
     \/ Cardinality(CoinFlips(rows, cols) \ t) <= MaxWalls
     \/ Cardinality(t) <= MaxLinks}

\* The outcomes of the enemy draws.
EnemyDraws(rows, cols, num_enemies) == [1 .. num_enemies -> Coords(rows, cols)]

\* The cells whose is_enemy flag is set.
EnemyCells(m) == {n \in DOMAIN m : m[n].is_enemy}

\* ------------------------------------------------------------ astar
\* heuristic(node, end) = math.sqrt(abs((node.row - end[0]) * 2 +
\* (node.col - end[1]) * 2)).  The model keeps the radicand: the value is
\* the square root of the number returned here.
Heuristic(node, end_) == Abs((node[1] - end_[1]) * 2 + (node[2] - end_[2]) * 2)

\* g1 + sqrt(a1) < g2 + sqrt(a2), decided exactly over the integers (the
\* float comparison of two f values of the frontier).
FLess(g1, a1, g2, a2) ==
  LET d == g2 - g1 IN
  IF d >= 0
  THEN LET l == a1 - a2 - d * d IN l < 0 \/ l * l < 4 * d * d * a2
  ELSE LET m == a2 - a1 - d * d IN m > 0 /\ 4 * d * d * a1 < m * m

\* A frontier entry (f, g, node), with f = g + sqrt(h2).
Entry(g, h2, node) == [g |-> g, h2 |-> h2, node |-> node]

\* Fault variant of the frontier order: the entry of greatest f and g comes
\* first, so the frontier is searched deepest first.
TupleGreater(x, y, m) ==
  IF FLess(y.g, y.h2, x.g, x.h2) THEN TRUE
  ELSE IF FLess(x.g, x.h2, y.g, y.h2) THEN FALSE
  ELSE IF x.g # y.g THEN x.g > y.g
  ELSE FALSE

\* Python's tuple order on two entries: the first differing component
\* decides; nodes differ by identity and compare by MazeNode.__lt__, that
\* is by their distance at the time of the comparison.
TupleLess(x, y, m) ==
  IF FLess(x.g, x.h2, y.g, y.h2) THEN TRUE
  ELSE IF FLess(y.g, y.h2, x.g, x.h2) THEN FALSE
  ELSE IF x.g # y.g THEN x.g < y.g
  ELSE IF x.node # y.node THEN m[x.node].distance < m[y.node].distance
  ELSE FALSE

\* heapq._siftdown(heap, startpos, pos), newitem being heap[pos].
RECURSIVE SiftDown(_, _, _, _, _)
SiftDown(heap, startpos, pos, newitem, m) ==
  IF pos > startpos /\ TupleLess(newitem, heap[pos \div 2], m)
  THEN SiftDown([heap EXCEPT ![pos] = heap[pos \div 2]], startpos, pos \div 2, newitem, m)
  ELSE [heap EXCEPT ![pos] = newitem]

\* heapq.heappush(heap, item)
HeapPush(heap, item, m) ==
  SiftDown(Append(heap, item), 1, Len(heap) + 1, item, m)

\* The loop of heapq._siftup: the smaller child moves up until a leaf is hit.
RECURSIVE SiftUpLoop(_, _, _)
SiftUpLoop(heap, pos, m) ==
  LET childpos == 2 * pos
      rightpos == childpos + 1
  IN IF childpos <= Len(heap)
     THEN LET c == IF rightpos <= Len(heap) /\ ~TupleLess(heap[childpos], heap[rightpos], m)
                   THEN rightpos ELSE childpos
          IN SiftUpLoop([heap EXCEPT ![pos] = heap[c]], c, m)
     ELSE <<heap, pos>>

\* heapq.heappop(heap): the item popped and the heap left.
HeapPop(heap, m) ==
  LET lastelt == heap[Len(heap)]
      rest == SubSeq(heap, 1, Len(heap) - 1)
  IN IF rest = <<>> THEN [item |-> lastelt, heap |-> rest]
     ELSE LET up == SiftUpLoop([rest EXCEPT ![1] = lastelt], 1, m)
          IN [item |-> rest[1], heap |-> SiftDown(up[1], 1, up[2], lastelt, m)]

\* [current_node.left, current_node.right, current_node.up, current_node.down]
\* filtered by filter(None, .)
Neighbors(m, n) ==
  SelectSeq(<<m[n].left, m[n].right, m[n].up, m[n].down>>, LAMBDA x : x # None)

\* Fault variant of the relaxation: the neighbor's is_enemy flag is not
\* looked at.
RelaxOneThroughEnemies(m, heap, neighbor, current_g, end_) ==
  LET new_g == current_g + 1 IN
  IF ~m[neighbor].visited /\ new_g < m[neighbor].distance
  THEN LET m2 == [m EXCEPT ![neighbor].distance = new_g]
       IN [maze |-> m2,
           heap |-> SiftDown(Append(heap, Entry(new_g, Heuristic(neighbor, end_), neighbor)),
                             1, Len(heap) + 1,
                             Entry(new_g, Heuristic(neighbor, end_), neighbor), m2)]
  ELSE [maze |-> m, heap |-> heap]

\* The relaxation of one neighbor: it must be neither visited nor an enemy,
\* and new_g must be below its distance.
RelaxOne(m, heap, neighbor, current_g, end_) ==
  LET new_g == current_g + 1 IN
  IF ~m[neighbor].visited /\ ~m[neighbor].is_enemy /\ new_g < m[neighbor].distance
  THEN LET m2 == [m EXCEPT ![neighbor].distance = new_g]
       IN [maze |-> m2,
           heap |-> HeapPush(heap, Entry(new_g, Heuristic(neighbor, end_), neighbor), m2)]
  ELSE [maze |-> m, heap |-> heap]

\* The for loop over the neighbors of the current node.
RECURSIVE Relax(_, _, _, _, _)
Relax(m, heap, neighbors, current_g, end_) ==
  IF neighbors = <<>> THEN [maze |-> m, heap |-> heap]
  ELSE LET r == RelaxOne(m, heap, Head(neighbors), current_g, end_)
       IN Relax(r.maze, r.heap, Tail(neighbors), current_g, end_)

\* One iteration of the A* search loop on the frontier.
PopStep(m, heap, end_) ==
  LET p == HeapPop(heap, m)
      n == p.item.node
  IN IF m[n].visited THEN [maze |-> m, heap |-> p.heap]
     ELSE LET m2 == [m EXCEPT ![n].visited = TRUE, ![n].distance = p.item.g]
          IN Relax(m2, p.heap, Neighbors(m2, n), p.item.g, end_)

\* Fault variant of the entry of astar: distance and visited are left as
\* the previous search left them.
NoReset(m) == m

\* The reset of the transient search state at the entry of astar.
ResetSearchState(m) ==
  [n \in DOMAIN m |-> [m[n] EXCEPT !.visited = FALSE, !.distance = Inf]]

\* valid_neighbors = [n for n in neighbors if n and not n.is_enemy]
ValidNeighbors(m, n) ==
  SelectSeq(<<m[n].left, m[n].right, m[n].up, m[n].down>>,
            LAMBDA x : x # None /\ ~m[x].is_enemy)

\* min(valid_neighbors, key=lambda x: x.distance): the first of the minima.
RECURSIVE MinByDistance(_, _)
MinByDistance(m, s) ==
  IF Len(s) = 1 THEN s[1]
  ELSE LET rest == MinByDistance(m, Tail(s))
       IN IF m[rest].distance < m[s[1]].distance THEN rest ELSE s[1]

\* Fault variant of the end of astar: the path is returned as the
\* reconstruction built it, destination first.
NotReversed(s) == s

\* list(reversed(path))
Reversed(s) == [i \in 1 .. Len(s) |-> s[Len(s) + 1 - i]]

\* What a call hands its caller: a path, None, or a raised ValueError; a
\* call that never returns hands nothing ("Diverged").
PathResult(p) == [kind |-> "Path", path |-> p]
NoneResult == [kind |-> "None", path |-> <<>>]
ValueErrorResult == [kind |-> "ValueError", path |-> <<>>]
DivergedResult == [kind |-> "Diverged", path |-> <<>>]

\* One iteration of the reconstruction loop "while current_node !=
\* start_node": the coordinate is appended and the loop moves to the valid
\* neighbor of minimal distance; min() of an empty list raises ValueError.
\* The step from a node is a function of the node and of the grid, which the
\* loop leaves alone: once the path holds as many coordinates as the grid
\* has cells and the loop is still running, a node comes twice and the loop
\* never ends.
ReconstructStep(m, node, p) ==
  LET valid_neighbors == ValidNeighbors(m, node) IN
  IF Len(p) >= Cardinality(DOMAIN m)
  THEN [kind |-> "Diverged", node |-> node, path |-> p]
  ELSE IF valid_neighbors = <<>>
  THEN [kind |-> "ValueError", node |-> node, path |-> p]
  ELSE [kind |-> "Step", node |-> MinByDistance(m, valid_neighbors),
        path |-> Append(p, node)]

\* The search loop run until the frontier is empty: the grid it leaves.
RECURSIVE RunSearchLoop(_, _, _)
RunSearchLoop(m, heap, end_) ==
  IF heap = <<>> THEN m
  ELSE LET r == PopStep(m, heap, end_) IN RunSearchLoop(r.maze, r.heap, end_)

\* The reconstruction loop run from a node on.
RECURSIVE RunReconstruct(_, _, _, _)
RunReconstruct(m, node, start_, p) ==
  IF node = start_ THEN PathResult(Reversed(Append(p, start_)))
  ELSE LET r == ReconstructStep(m, node, p) IN
       IF r.kind = "Step" THEN RunReconstruct(m, r.node, start_, r.path)
       ELSE IF r.kind = "ValueError" THEN ValueErrorResult
       ELSE DivergedResult

\* astar(maze, start, end) as a whole: what the call hands its caller.
Astar(m, start_, end_) ==
  LET m0 == ResetSearchState(m)
      m1 == RunSearchLoop(m0, <<Entry(0, Heuristic(start_, end_), start_)>>, end_)
  IN IF m1[end_].distance = Inf THEN NoneResult
     ELSE RunReconstruct(m1, end_, start_, <<>>)

\* Fault variant of add_enemies_along_path: every draw is counted, also one
\* that falls on a cell that is an enemy already.
RECURSIVE CountEveryDraw(_, _, _, _)
CountEveryDraw(m, p, draws, enemies_added) ==
  IF draws = <<>> THEN [kind |-> "Int", maze |-> m, enemies_added |-> enemies_added]
  ELSE CountEveryDraw([m EXCEPT ![p[Head(draws) + 1]].is_enemy = TRUE], p,
                      Tail(draws), enemies_added + 1)

\* ------------------------------------------- add_enemies_along_path
\* The loop body for the indices drawn: a cell not yet an enemy becomes one
\* and is counted.
RECURSIVE MarkDraws(_, _, _, _)
MarkDraws(m, p, draws, enemies_added) ==
  IF draws = <<>> THEN [kind |-> "Int", maze |-> m, enemies_added |-> enemies_added]
  ELSE LET cell == p[Head(draws) + 1] IN
       IF ~m[cell].is_enemy
       THEN MarkDraws([m EXCEPT ![cell].is_enemy = TRUE], p, Tail(draws), enemies_added + 1)
       ELSE MarkDraws(m, p, Tail(draws), enemies_added)

\* add_enemies_along_path(maze, path, num_enemies): its possible outcomes.
\* random.randint(1, len(path) - 2) raises ValueError on an empty range.
AddEnemiesAlongPath(m, p, num_enemies) ==
  IF num_enemies > 0 /\ Len(p) - 2 < 1
  THEN {[kind |-> "ValueError", maze |-> m, enemies_added |-> 0]}
  ELSE {MarkDraws(m, p, draws, 0) : draws \in [1 .. num_enemies -> 1 .. Len(p) - 2]}

\* ----------------------------------------------------- the endpoints
\* generate_start_on_border: (random.randint(1, rows - 2), 0)
GenerateStartOnBorder(rows, cols) == {<<r, 0>> : r \in 1 .. rows - 2}

\* generate_end_on_border: the values it can return.  A side that fails its
\* test makes the function call itself again, so a returned value is one of
\* a side that passes.
GenerateEndOnBorder(rows, cols, start_) ==
  (IF start_[1] # 0 THEN {<<0, c>> : c \in 1 .. cols - 2} ELSE {})
  \cup (IF start_[1] # rows - 1 THEN {<<rows - 1, c>> : c \in 1 .. cols - 2} ELSE {})
  \cup (IF start_[2] # 0 THEN {<<r, 0>> : r \in 1 .. rows - 2} ELSE {})
  \cup (IF start_[2] # cols - 1 THEN {<<r, cols - 1>> : r \in 1 .. rows - 2} ELSE {})

\* -------------------------------------------------------------- state
VARIABLES
  maze,               \* the grid: coordinate -> MazeNode
  num_enemies,        \* the num_enemies the maze was generated with
  start,              \* the start point
  end,                \* the end point
  pc,                 \* the position of the program
  caller,             \* who called astar: "harness", "first" or "second"
  priority_queue,     \* astar's frontier, a heapq list
  current_node,       \* the node of the reconstruction loop
  path,               \* the list the reconstruction loop fills
  result,             \* what the last astar call returned or raised
  shortest_path,      \* the workflow's first path
  new_shortest_path,  \* the workflow's second path
  path_enemies,       \* the num_enemies add_enemies_along_path was called with
  enemies_added,      \* what add_enemies_along_path returned
  rendered,           \* the calls of visualize_maze_svg made so far
  printed,            \* the last line printed
  previous,           \* the harness's record of the call before, when the call
                      \* under way repeats it on the unchanged grid
  depth               \* the generate_a_new_maze calls open below the current one

vars == <<maze, num_enemies, start, end, pc, caller, priority_queue, current_node,
          path, result, shortest_path, new_shortest_path, path_enemies,
          enemies_added, rendered, depth, printed, previous>>

\* What astar leaves alone: all but the grid, its locals, its result and pc.
astar_frame == <<num_enemies, start, end, caller, shortest_path, new_shortest_path,
                 path_enemies, enemies_added, rendered, depth, printed, previous>>
astar_locals == <<priority_queue, current_node, path>>

UnlinkedGrid == [n \in Cells |-> MazeNode(n[1], n[2])]

\* Nothing generated yet: a grid of unlinked nodes, no search made.
Init ==
  /\ maze = UnlinkedGrid
  /\ num_enemies = 0
  /\ start = <<0, 0>>
  /\ end = <<0, 0>>
  /\ pc = "main"
  /\ caller = "none"
  /\ priority_queue = <<>>
  /\ current_node = None
  /\ path = <<>>
  /\ result = NoneResult
  /\ shortest_path = NoneResult
  /\ new_shortest_path = NoneResult
  /\ path_enemies = 0
  /\ enemies_added = 0
  /\ rendered = <<>>
  /\ printed = ""
  /\ previous = <<>>
  /\ depth = 0

\* ------------------------------------------------------ astar, by steps
\* The entry of astar: the reset of every node and the frontier holding the
\* start node alone.
AstarEntry ==
  /\ pc = "astar"
  /\ maze' = ResetSearchState(maze)
  /\ priority_queue' = <<Entry(0, Heuristic(start, end), start)>>
  /\ result' = NoneResult
  /\ pc' = "search_loop"
  /\ UNCHANGED <<astar_frame, current_node, path>>

\* One iteration of "while priority_queue".
AstarPop ==
  /\ pc = "search_loop"
  /\ priority_queue # <<>>
  /\ LET r == PopStep(maze, priority_queue, end)
     IN /\ maze' = r.maze
        /\ priority_queue' = r.heap
  /\ UNCHANGED <<astar_frame, pc, current_node, path, result>>

\* The frontier is empty: None if the end node's distance is still infinite,
\* else the reconstruction starts at the end node.
AstarLoopExit ==
  /\ pc = "search_loop"
  /\ priority_queue = <<>>
  /\ IF maze[end].distance = Inf
     THEN /\ result' = NoneResult
          /\ pc' = "returned"
          /\ UNCHANGED <<current_node, path>>
     ELSE /\ path' = <<>>
          /\ current_node' = end
          /\ pc' = "reconstruct"
          /\ UNCHANGED result
  /\ UNCHANGED <<astar_frame, maze, priority_queue>>

\* One iteration of "while current_node != start_node".  A ValueError leaves
\* the call; a loop that never ends stays where it is (pc "diverged").
AstarReconstruct ==
  /\ pc = "reconstruct"
  /\ current_node # start
  /\ LET r == ReconstructStep(maze, current_node, path) IN
     IF r.kind = "Step"
     THEN /\ path' = r.path
          /\ current_node' = r.node
          /\ UNCHANGED <<pc, result>>
     ELSE IF r.kind = "ValueError"
     THEN /\ result' = ValueErrorResult
          /\ pc' = "returned"
          /\ path' = <<>>
          /\ current_node' = None
     ELSE /\ pc' = "diverged"
          /\ UNCHANGED <<current_node, path, result>>
  /\ UNCHANGED <<astar_frame, maze, priority_queue>>

\* The loop is left at the start node: it is appended and the reversed list
\* is returned.
AstarReturn ==
  /\ pc = "reconstruct"
  /\ current_node = start
  /\ result' = PathResult(Reversed(Append(path, start)))
  /\ pc' = "returned"
  /\ path' = <<>>
  /\ current_node' = None
  /\ UNCHANGED <<astar_frame, maze, priority_queue>>

AstarNext ==
  \/ AstarEntry
  \/ AstarPop
  \/ AstarLoopExit
  \/ AstarReconstruct
  \/ AstarReturn

\* ------------------------------------------------ the search harness
\* Any explored maze of the generator, any two coordinates: a first call of
\* astar.
SearchSetup ==
  /\ pc = "main"
  /\ \E n \in 0 .. MaxSearchEnemies :
       /\ num_enemies' = n
       /\ \E flips \in ExploredFlipOutcomes(Rows, Cols), draws \in EnemyDraws(Rows, Cols, n) :
            maze' = GenerateRandomMaze(Rows, Cols, n, flips, draws)
  /\ start' \in Cells
  /\ end' \in Cells
  /\ pc' = "astar"
  /\ caller' = "harness"
  /\ UNCHANGED <<astar_locals, result, shortest_path, new_shortest_path, path_enemies,
                 enemies_added, rendered, depth, printed, previous>>

\* Enemies are put along the path a call returned on a maze without enemies.
SearchAddEnemies ==
  /\ pc = "returned"
  /\ caller = "harness"
  /\ result.kind = "Path"
  /\ EnemyCells(maze) = {}
  /\ \E k \in 0 .. MaxPathEnemies :
       \E r \in AddEnemiesAlongPath(maze, result.path, k) :
         /\ path_enemies' = k
         /\ maze' = r.maze
         /\ enemies_added' = r.enemies_added
         /\ pc' = IF r.kind = "ValueError" THEN "raised" ELSE "added"
  /\ previous' = <<>>
  /\ UNCHANGED <<num_enemies, start, end, caller, astar_locals, result,
                 shortest_path, new_shortest_path, rendered, depth, printed>>

\* astar is called again on the grid as the calls before left it, between
\* the same endpoints or the other way round.  The harness keeps the result
\* of the call before when the new call has the same endpoints and the flags
\* of the grid have not changed in between.
SearchAgain ==
  /\ pc \in {"returned", "added", "raised"}
  /\ caller = "harness"
  /\ \E swap \in BOOLEAN :
       /\ start' = IF swap THEN end ELSE start
       /\ end' = IF swap THEN start ELSE end
       /\ previous' = IF ~swap /\ pc = "returned" THEN <<result>> ELSE <<>>
  /\ pc' = "astar"
  /\ path_enemies' = 0
  /\ enemies_added' = 0
  /\ UNCHANGED <<maze, num_enemies, caller, astar_locals, result, shortest_path,
                 new_shortest_path, rendered, depth, printed>>

SearchNext ==
  \/ SearchSetup
  \/ AstarNext
  \/ SearchAddEnemies
  \/ SearchAgain

SpecSearch == Init /\ [][SearchNext]_vars

\* ------------------------------------------- the generator on its own
\* generate_random_maze(rows, cols, num_enemies) is called and returns.
GeneratorCall ==
  /\ pc = "main"
  /\ \E n \in 0 .. MaxGenEnemies :
       /\ num_enemies' = n
       /\ \E flips \in ExploredFlipOutcomes(Rows, Cols), draws \in EnemyDraws(Rows, Cols, n) :
            maze' = GenerateRandomMaze(Rows, Cols, n, flips, draws)
  /\ pc' = "generated"
  /\ UNCHANGED <<start, end, caller, astar_locals, result, shortest_path,
                 new_shortest_path, path_enemies, enemies_added, rendered, depth, printed,
                 previous>>

\* The caller drops the maze.
GeneratorDrop ==
  /\ pc = "generated"
  /\ maze' = UnlinkedGrid
  /\ num_enemies' = 0
  /\ pc' = "main"
  /\ UNCHANGED <<start, end, caller, astar_locals, result, shortest_path,
                 new_shortest_path, path_enemies, enemies_added, rendered, depth, printed,
                 previous>>

GenNext ==
  \/ GeneratorCall
  \/ GeneratorDrop

SpecGen == Init /\ [][GenNext]_vars

\* ------------------------------------------------- generate_a_new_maze
\* A call of generate_a_new_maze that calls itself has nothing left to do
\* when the inner call returns, and the inner call builds a maze and
\* endpoints of its own: the restart is the program at "main" again, with
\* the locals of the abandoned attempt gone and the message printed.
Restart(message) ==
  /\ printed' = message
  /\ pc' = "main"
  /\ maze' = UnlinkedGrid
  /\ start' = <<0, 0>>
  /\ end' = <<0, 0>>
  /\ caller' = "none"
  /\ result' = NoneResult
  /\ shortest_path' = NoneResult
  /\ new_shortest_path' = NoneResult
  /\ path_enemies' = 0
  /\ enemies_added' = 0
  /\ depth' = depth + 1

\* "except ValueError as e": the error is printed and the call returns.
ExceptValueError ==
  /\ printed' = "Error: "
  /\ pc' = "error_printed"
  /\ UNCHANGED <<maze, start, end, caller, result, shortest_path, new_shortest_path,
                 path_enemies, enemies_added, depth>>

\* Fault variant of the test on enemies_added: one enemy is enough.
AtLeastOneEnemy(added) == added >= 1

\* "if enemies_added == 2"
EnoughEnemies(added) == added = WorkflowPathEnemies

\* The maze and the endpoints are generated and the first search is called.
GenerateANewMaze ==
  /\ pc = "main"
  /\ depth < RecursionLimit
  /\ printed' = "Generating a new maze"
  /\ num_enemies' = WorkflowNumEnemies
  /\ \E flips \in AllFlipOutcomes(Rows, Cols),
        draws \in EnemyDraws(Rows, Cols, WorkflowNumEnemies) :
       maze' = GenerateRandomMaze(Rows, Cols, WorkflowNumEnemies, flips, draws)
  /\ start' \in GenerateStartOnBorder(Rows, Cols)
  /\ end' \in GenerateEndOnBorder(Rows, Cols, start')
  /\ pc' = "astar"
  /\ caller' = "first"
  /\ UNCHANGED <<astar_locals, result, shortest_path, new_shortest_path, path_enemies,
                 enemies_added, rendered, previous, depth>>

\* The restarts are calls of generate_a_new_maze from within itself, and no
\* call returns before the one it made has: every failed attempt leaves its
\* frame open.  At the recursion limit the call raises RecursionError,
\* which "except ValueError" does not catch: the program ends with a traceback.
RaiseRecursionError ==
  /\ pc = "main"
  /\ depth >= RecursionLimit
  /\ pc' = "recursion_error"
  /\ UNCHANGED <<maze, num_enemies, start, end, caller, astar_locals, result,
                 shortest_path, new_shortest_path, path_enemies, enemies_added,
                 rendered, printed, previous, depth>>

\* The first search is over: shortest_path is its result; None restarts.
FirstSearchDone ==
  /\ pc = "returned"
  /\ caller = "first"
  /\ IF result.kind = "ValueError"
     THEN ExceptValueError
     ELSE IF result.kind = "None"
     THEN Restart("No path found from start to end.")
     ELSE /\ shortest_path' = result
          /\ pc' = "add_enemies"
          /\ UNCHANGED <<maze, start, end, caller, result, new_shortest_path,
                         path_enemies, enemies_added, printed, depth>>
  /\ UNCHANGED <<num_enemies, astar_locals, rendered, previous>>

\* add_enemies_along_path(random_maze, shortest_path, num_enemies=2), and
\* the test of what it returns: the second search, or a restart.
AddEnemies ==
  /\ pc = "add_enemies"
  /\ \E r \in AddEnemiesAlongPath(maze, shortest_path.path, WorkflowPathEnemies) :
       IF r.kind = "ValueError"
       THEN ExceptValueError
       ELSE IF EnoughEnemies(r.enemies_added)
       THEN /\ maze' = r.maze
            /\ path_enemies' = WorkflowPathEnemies
            /\ enemies_added' = r.enemies_added
            /\ pc' = "astar"
            /\ caller' = "second"
            /\ UNCHANGED <<start, end, result, shortest_path, new_shortest_path, printed,
                           depth>>
       ELSE Restart("Failed to add enemies along the path.")
  /\ UNCHANGED <<num_enemies, astar_locals, rendered, previous>>

\* The second search is over: new_shortest_path is its result; None restarts.
SecondSearchDone ==
  /\ pc = "returned"
  /\ caller = "second"
  /\ IF result.kind = "ValueError"
     THEN ExceptValueError
     ELSE IF result.kind = "None"
     THEN Restart("No path found after adding enemies.")
     ELSE /\ new_shortest_path' = result
          /\ pc' = "visualize"
          /\ UNCHANGED <<maze, start, end, caller, result, shortest_path,
                         path_enemies, enemies_added, printed, depth>>
  /\ UNCHANGED <<num_enemies, astar_locals, rendered, previous>>

\* visualize_maze_svg(random_maze, shortest_path, start_point, end_point,
\* new_shortest_path): the arguments handed over are recorded (the maze is
\* handed by reference: it is the variable maze).  The prints follow and the
\* call returns.
Visualize ==
  /\ pc = "visualize"
  /\ rendered' = Append(rendered, [path |-> shortest_path.path, start |-> start,
                                   end |-> end, enemies |-> new_shortest_path.path])
  /\ printed' = "Shortest Path (Avoiding Enemies):"
  /\ pc' = "done"
  /\ UNCHANGED <<maze, num_enemies, start, end, caller, astar_locals, result,
                 shortest_path, new_shortest_path, path_enemies, enemies_added,
                 previous, depth>>

WorkflowNext ==
  \/ GenerateANewMaze
  \/ RaiseRecursionError
  \/ AstarNext
  \/ FirstSearchDone
  \/ AddEnemies
  \/ SecondSearchDone
  \/ Visualize

SpecWorkflow == Init /\ [][WorkflowNext]_vars

\* ============================================================ claims
\* b is reached from a by a pointer of a that is present.
Adjacent(m, a, b) == b \in ({m[a].left, m[a].right, m[a].up, m[a].down} \ {None})

\* The number of adjacencies present, each counted at its left or upper cell.
LinkCount(m) ==
  Cardinality({n \in DOMAIN m : m[n].right # None})
  + Cardinality({n \in DOMAIN m : m[n].down # None})

\* Breadth-first search over the cells that are no enemies: the number of
\* edges of a shortest route to target, Inf when there is none.
RECURSIVE BfsDistance(_, _, _, _, _)
BfsDistance(m, frontier, seen, target, d) ==
  IF target \in frontier THEN d
  ELSE IF frontier = {} THEN Inf
  ELSE LET next == {n \in DOMAIN m : /\ n \notin seen
                                     /\ ~m[n].is_enemy
                                     /\ \E f \in frontier : Adjacent(m, f, n)}
       IN BfsDistance(m, next, seen \cup next, target, d + 1)

\* The minimum number of edges among the routes from s to e that use present
\* adjacencies and cells that are no enemies (Inf: no such route).
ShortestRoute(m, s, e) ==
  IF m[s].is_enemy THEN Inf ELSE BfsDistance(m, {s}, {s}, e, 0)

\* The grid with the same adjacencies and enemy flags and the search state
\* of a node just constructed.
Pristine(m) ==
  [n \in DOMAIN m |-> [m[n] EXCEPT !.distance = MazeNode(n[1], n[2]).distance,
                                   !.visited = MazeNode(n[1], n[2]).visited]]

\* The grid with the same adjacencies and no enemy.
WithoutEnemies(m) == [n \in DOMAIN m |-> [m[n] EXCEPT !.is_enemy = FALSE]]

\* The coordinates of a path but its first and its last.
Interior(p) == {p[i] : i \in 2 .. Len(p) - 1}

\* C1: a path astar returns starts at the source, ends at the destination,
\* and each of its consecutive pairs is joined by a present adjacency.
C1_PathIsValid ==
  (pc = "returned" /\ result.kind = "Path") =>
    LET p == result.path IN
    /\ Len(p) >= 1
    /\ p[1] = start
    /\ p[Len(p)] = end
    /\ \A i \in 1 .. Len(p) - 1 : Adjacent(maze, p[i], p[i + 1])

\* A path of five coordinates or more was returned on a maze with a wall.
C1_Witness ==
  /\ pc = "returned"
  /\ result.kind = "Path"
  /\ Len(result.path) >= 5
  /\ LinkCount(maze) < Cardinality(CoinFlips(Rows, Cols))

\* C2: for a reachable endpoint pair, the path astar returns has the minimum
\* number of edges among the routes over present adjacencies and cells that
\* are no enemies (the breadth-first oracle).
C2_PathIsShortest ==
  (pc = "returned" /\ result.kind = "Path" /\ ShortestRoute(maze, start, end) < Inf) =>
    Len(result.path) - 1 = ShortestRoute(maze, start, end)

\* A path was returned that is longer than the Manhattan distance of its
\* endpoints: the shortest route goes round a wall or an enemy.
C2_Witness ==
  /\ pc = "returned"
  /\ result.kind = "Path"
  /\ ShortestRoute(maze, start, end) < Inf
  /\ Len(result.path) - 1 > Abs(start[1] - end[1]) + Abs(start[2] - end[2])

\* C3: with source # destination and a source that is no enemy, astar
\* returns None exactly when no route over present adjacencies and cells
\* that are no enemies leads from the source to the destination.
C3_NoneIffUnreachable ==
  (pc = "returned" /\ start # end /\ ~maze[start].is_enemy) =>
    (result.kind = "None" <=> ShortestRoute(maze, start, end) = Inf)

\* None was returned on a maze with one wall at most, where an enemy that is
\* neither endpoint cuts the destination off.
C3_Witness ==
  /\ pc = "returned"
  /\ result.kind = "None"
  /\ start # end
  /\ ~maze[start].is_enemy
  /\ ~maze[end].is_enemy
  /\ LinkCount(maze) >= Cardinality(CoinFlips(Rows, Cols)) - 1

C5_ResultIndependentOfResidue ==
  /\ pc = "returned" => result = Astar(Pristine(maze), start, end)
  /\ pc = "diverged" => Astar(Pristine(maze), start, end).kind = "Diverged"
  /\ (pc = "returned" /\ previous # <<>>) => result = previous[1]

\* A call that repeats the call before has returned a path of three
\* coordinates or more.
C5_Witness ==
  /\ pc = "returned"
  /\ previous # <<>>
  /\ result.kind = "Path"
  /\ Len(result.path) >= 3

\* C6: add_enemies_along_path changes nothing but enemy flags from False to
\* True, never that of the first or of the last coordinate of the path, sets
\* at most num_enemies flags, and returns the number of flags it set.
C6_AddEnemiesContract ==
  [][(pc = "returned" /\ pc' \in {"added", "raised"}) =>
       LET p == result.path
           changed == {n \in Cells : maze'[n] # maze[n]}
       IN /\ \A n \in changed : /\ ~maze[n].is_enemy
                                /\ maze'[n] = [maze[n] EXCEPT !.is_enemy = TRUE]
          /\ p[1] \notin changed
          /\ p[Len(p)] \notin changed
          /\ Cardinality(changed) <= path_enemies'
          /\ pc' = "added" => enemies_added' = Cardinality(changed)]_vars

\* Two enemies were asked for, both draws fell on the same cell, and 1 was
\* returned.
C6_Witness ==
  /\ pc = "added"
  /\ path_enemies = 2
  /\ enemies_added = 1
  /\ Cardinality(EnemyCells(maze)) = 1

\* C7: visualize_maze_svg is called only where, in the same attempt, the
\* first search returned a path, add_enemies_along_path then put exactly 2
\* enemies on interior cells of that path, and the second search, run with
\* those flags set, returned a path; enemies are put only after a first
\* search that returned a path, and the hand-off follows the second search.
C7_RenderOnlyAfterBothSearches ==
  /\ []((pc = "visualize" \/ rendered # <<>>) =>
          /\ shortest_path.kind = "Path"
          /\ shortest_path = Astar(Pristine(WithoutEnemies(maze)), start, end)
          /\ enemies_added = 2
          /\ Cardinality(EnemyCells(maze)) = 2
          /\ EnemyCells(maze) \subseteq Interior(shortest_path.path)
          /\ new_shortest_path.kind = "Path"
          /\ new_shortest_path = Astar(Pristine(maze), start, end)
          /\ \A i \in 1 .. Len(new_shortest_path.path) :
               new_shortest_path.path[i] \notin EnemyCells(maze))
  /\ [][(EnemyCells(maze') # EnemyCells(maze) /\ pc' # "main") =>
          /\ pc = "add_enemies"
          /\ caller = "first"
          /\ shortest_path.kind = "Path"
          /\ shortest_path = result]_vars
  /\ [][rendered' # rendered =>
          /\ pc = "visualize"
          /\ caller = "second"
          /\ new_shortest_path = result
          /\ rendered' = <<[path |-> shortest_path.path, start |-> start, end |-> end,
                            enemies |-> new_shortest_path.path]>>]_vars

\* The renderer was called and the workflow is over.
C7_Witness ==
  /\ pc = "done"
  /\ Len(rendered) = 1
  /\ Len(rendered[1].enemies) >= 5

\* C8: a first search that returns None, an insertion that does not put
\* exactly 2 enemies, and a second search that returns None each restart the
\* workflow, which generates a new maze and new endpoints and runs the stages
\* again; no failed attempt ends the workflow, by an error printed or by an
\* error raised, and the renderer is reached from a second search that
\* returned a path only.
C8_FailureRestarts ==
  /\ [](pc \notin {"error_printed", "recursion_error"})
  /\ [][(pc = "returned" /\ result.kind # "Path") =>
          (pc' = "main" /\ maze' = UnlinkedGrid /\ rendered' = <<>>)]_vars
  /\ [][pc = "add_enemies" =>
          \/ /\ pc' = "astar"
             /\ Cardinality(EnemyCells(maze')) = 2
             /\ EnemyCells(maze') \subseteq Interior(shortest_path.path)
          \/ (pc' = "main" /\ maze' = UnlinkedGrid /\ rendered' = <<>>)]_vars
  /\ [][pc = "main" =>
          /\ pc' = "astar"
          /\ caller' = "first"
          /\ EnemyCells(maze') = {}
          /\ maze' = Pristine(maze')]_vars
  /\ [][pc' = "visualize" =>
          (pc = "returned" /\ caller = "second" /\ result.kind = "Path")]_vars

\* C9: generate_random_maze(rows, cols, num_enemies) returns a grid with
\* exactly num_enemies enemy cells.
C9_ExactlyNumEnemies ==
  pc = "generated" => Cardinality(EnemyCells(maze)) = num_enemies

\* C10: every call of astar runs to completion: the reconstruction always
\* has a neighbor to step to (no ValueError), steps to a strictly smaller
\* distance, and ends at the source.
C10_SearchCompletes ==
  /\ pc # "diverged"
  /\ ~(pc = "returned" /\ result.kind = "ValueError")
  /\ (pc = "reconstruct" /\ path # <<>>) =>
       maze[current_node].distance < maze[path[Len(path)]].distance

====
